---- MODULE Spec2Model ----
(***************************************************************************)
(* Frame reception and command decoding of the LED-grid SPI peripherals.   *)
(*                                                                         *)
(*   ESP32 (polling) variant  : src/esp32_led_controller/src/main.cpp      *)
(*   RP2040 (edge-triggered)  : src/src/main.cpp                           *)
(*                                                                         *)
(* The strip geometry is scaled down (MAX_STRIPS 7 -> 2, MAX_LEDS_PER_STRIP *)
(* 500 -> 3, DEFAULT_LEDS_PER_STRIP 140 -> 2); every width that matters    *)
(* (uint8_t count, uint16_t pixel index, uint32_t counters) is kept.       *)
(* Sequences are 1-based: the C byte data[i] is At(data, i).               *)
(***************************************************************************)
EXTENDS Integers, Sequences, FiniteSets, TLC

(***************************************************************************)
(* ESP32: constants (main.cpp lines 18-52)                                 *)
(***************************************************************************)
MAX_STRIPS == 2
MAX_LEDS_PER_STRIP == 3
MAX_TOTAL_LEDS == MAX_STRIPS * MAX_LEDS_PER_STRIP
DEFAULT_STRIPS == 2
DEFAULT_LEDS_PER_STRIP == 2
DEFAULT_BRIGHTNESS == 50

CMD_SET_PIXEL == 1
CMD_SET_BRIGHTNESS == 2
CMD_SHOW == 3
CMD_CLEAR == 4
CMD_SET_RANGE == 5
CMD_SET_ALL == 6
CMD_CONFIG == 7
CMD_PING == 255

U8 == 256
U16 == 65536
\* uint32_t ++ : the counters of the model stay below their caps (MaxFrames,
\* MaxZeroPayload), far from the wraparound at 2^32
Inc32(x) == x + 1

\* Bounds of the model: caps of the diagnostic counters.
MaxFrames == 2
MaxZeroPayload == 1
\* Bound of the model: the largest count field a set-range frame carries.
MaxCount == 3

(***************************************************************************)
(* Colours and byte frames                                                 *)
(***************************************************************************)
CRGB(r, g, b) == <<r, g, b>>
Black == CRGB(0, 0, 0)
Tint == CRGB(1, 2, 3)
Colours == {Black, Tint}

At(data, i) == data[i + 1]
Hi(v) == v \div U8
Lo(v) == v % U8
Be16(hi, lo) == ((hi * U8) + lo) % U16

Slots == 0 .. (MAX_TOTAL_LEDS - 1)

VARIABLES
  leds,                 \* CRGB leds[MAX_TOTAL_LEDS]
  active_strips,        \* uint8_t
  leds_per_strip,       \* uint16_t
  total_leds,           \* uint16_t
  global_brightness,    \* uint8_t
  debug_logging,        \* bool
  frames_rendered,      \* uint32_t
  zero_payload_packets, \* uint32_t
  spi_rx_buffer,        \* the bytes the last exchange clocked in (the rest is 0)
  rx_bytes,             \* loop(): bytes = trans.trans_len / 8
  pc,                   \* position of loop(): "top", "transmit", "process"
  shown,                \* buffers handed to FastLED.show() by this loop iteration
  l2p_calls             \* logical indices this loop iteration passed to logical_to_physical

esp_vars == <<leds, active_strips, leds_per_strip, total_leds, global_brightness,
              debug_logging, frames_rendered, zero_payload_packets, spi_rx_buffer,
              rx_bytes, pc, shown, l2p_calls>>

(***************************************************************************)
(* RP2040: constants (src/src/main.cpp lines 25-42), scaled: 8 strips of   *)
(* 20 LEDs -> 2 strips of 1 LED, DMA_BUFFER_SIZE 1024 -> 10                *)
(***************************************************************************)
NUM_LED == 1
RP_STRIPS == 2
TOTAL_LEDS == NUM_LED * RP_STRIPS
DMA_BUFFER_SIZE == 10
CMD_SET_ALL_PIXELS == 6

\* Bound of the model: the number of transactions the master starts.
MaxTxns == 2

DmaIdx == 0 .. (DMA_BUFFER_SIZE - 1)
RpPixels == 0 .. (TOTAL_LEDS - 1)

VARIABLES
  dma_buffer,           \* uint8_t dma_buffer[DMA_BUFFER_SIZE]
  transfer_count,       \* transfer_count register of the RX DMA channel
  transaction_complete, \* volatile bool
  bytes_received,       \* volatile uint16_t
  rp_leds,              \* pixel store of the Adafruit_NeoPXL8 object `leds`
  rp_brightness,        \* its brightness
  framesRendered,       \* unsigned long
  packetsReceived,      \* unsigned long
  rp_shown,             \* buffers handed to leds.show() by the current decode
  pcm,                  \* position of the main loop (loop() and processCommand())
  loc,                  \* locals of processCommand(): cmd, pixel/start, count, i, r, g
  cs,                   \* level of the chip-select line: "high" or "low"
  tx,                   \* the bytes the master clocks in the current transaction
  txns,                 \* number of transactions started so far
  ready_snap,           \* id, byte count and buffer of the transaction that last marked
                        \* ready, and how many transactions have marked ready so far
  dec_snap,             \* ... of the transaction whose ready flag the main loop consumed,
                        \* with the pixel store, brightness and frame counter of that moment
  decoded,              \* the transactions whose ready flag was consumed, in order
  torn,                 \* the current decode read a count or byte that differs from dec_snap
  dec_src,              \* transactions whose DMA-written bytes the current decode read
  rd,                   \* indices of dma_buffer the current decode has read
  applied               \* per call of processCommand(): the transaction whose byte it
                        \* read as the opcode (negative: that transaction was still in
                        \* progress; 0: the byte the memset left)

rp_vars == <<dma_buffer, transfer_count, transaction_complete, bytes_received, rp_leds,
             rp_brightness, framesRendered, packetsReceived, rp_shown, pcm, loc, cs,
             tx, txns, ready_snap, dec_snap, decoded, torn, dec_src, rd, applied>>

vars == <<esp_vars, rp_vars>>

(***************************************************************************)
(* Address translator                                                      *)
(***************************************************************************)
\* line 85: the condition of the defensive clamp
L2PClamps(logical, strips, len) == (logical \div len) >= strips

\* a translator that packs the strips back to back (stride len)
logical_to_physical_packed(logical, strips, len) ==
  (((logical \div len) * len) + (logical % len)) % U16

\* lines 82-90
logical_to_physical(logical, strips, len) ==
  IF L2PClamps(logical, strips, len)
  THEN (((strips - 1) * MAX_LEDS_PER_STRIP) + (len - 1)) % U16
  ELSE (((logical \div len) * MAX_LEDS_PER_STRIP) + (logical % len)) % U16

\* blanks the tails of the active strips, forgets the inactive strips
BlankUnusedTailsOnly(buf, strips, len) ==
  [p \in DOMAIN buf |->
     IF (p \div MAX_LEDS_PER_STRIP) < strips /\ (p % MAX_LEDS_PER_STRIP) >= len
     THEN Black ELSE buf[p]]

\* a tail loop that starts one offset early
BlankUnusedOneEarly(buf, strips, len) ==
  [p \in DOMAIN buf |->
     IF (p \div MAX_LEDS_PER_STRIP) < strips
     THEN IF (p % MAX_LEDS_PER_STRIP) >= len - 1 THEN Black ELSE buf[p]
     ELSE Black]

\* lines 233-242 and 273-282: blank the tail of every active strip and every
\* slot of the inactive strips
BlankUnused(buf, strips, len) ==
  [p \in DOMAIN buf |->
     IF (p \div MAX_LEDS_PER_STRIP) < strips
     THEN IF (p % MAX_LEDS_PER_STRIP) >= len THEN Black ELSE buf[p]
     ELSE Black]

\* a blanking loop that starts at offset 1 of every strip
BlankAllFromOne(buf) ==
  [p \in DOMAIN buf |-> IF p % MAX_LEDS_PER_STRIP = 0 THEN buf[p] ELSE Black]

\* lines 174-183: blank every slot of every strip
BlankAll(buf) == [p \in DOMAIN buf |-> Black]

(***************************************************************************)
(* Init: the state setup() leaves (lines 36-40, 327-341)                   *)
(***************************************************************************)
EspInit ==
  /\ leds = [p \in Slots |-> Black]
  /\ active_strips = DEFAULT_STRIPS
  /\ leds_per_strip = DEFAULT_LEDS_PER_STRIP
  /\ total_leds = (DEFAULT_STRIPS * DEFAULT_LEDS_PER_STRIP) % U16
  /\ global_brightness = DEFAULT_BRIGHTNESS
  /\ debug_logging = FALSE
  /\ frames_rendered = 0
  /\ zero_payload_packets = 0
  /\ spi_rx_buffer = <<>>
  /\ rx_bytes = 0
  /\ pc = "top"
  /\ shown = <<>>
  /\ l2p_calls = {}

(***************************************************************************)
(* Frames the master may clock in (the environment of loop())              *)
(***************************************************************************)
\* the first n bytes of a transaction whose structured part is `full`,
\* zero-filled when the master keeps clocking after it
Pad(full, n) == [i \in 1 .. n |-> IF i <= Len(full) THEN full[i] ELSE 0]

\* payload of k colour triples: pattern 0 starts with Tint, pattern 1 with Black
PatColour(pat, i) == IF (i + pat) % 2 = 0 THEN Tint ELSE Black
Payload(pat, k) == [j \in 1 .. (3 * k) |-> PatColour(pat, (j - 1) \div 3)[((j - 1) % 3) + 1]]

PixelIdx == (0 .. MAX_TOTAL_LEDS) \cup {U8, U16 - 1}
StartIdx == (0 .. MAX_TOTAL_LEDS) \cup {U16 - 1}
Counts == 0 .. MaxCount
Brightnesses == {7}

FramesPing == {<<CMD_PING>>, <<CMD_PING, 0>>}
FramesUnknown == {<<0, 0>>, <<8>>, <<8, 1>>}
FramesSetPixel ==
  {<<CMD_SET_PIXEL, Hi(p), Lo(p)>> \o c : p \in PixelIdx, c \in Colours}
    \cup {<<CMD_SET_PIXEL, 0, 0, 1, 2>>, <<CMD_SET_PIXEL>>}
FramesSetBrightness ==
  {<<CMD_SET_BRIGHTNESS>>} \cup {<<CMD_SET_BRIGHTNESS, b>> : b \in Brightnesses}
FramesShow == {<<CMD_SHOW>>, <<CMD_SHOW, 0>>}
FramesClear == {<<CMD_CLEAR>>, <<CMD_CLEAR, 1>>}
FramesSetRange ==
  {<<CMD_SET_RANGE, 0, 0>>}
    \cup {<<CMD_SET_RANGE, Hi(s), Lo(s), k>> \o Payload(pat, k) :
            s \in StartIdx, k \in Counts, pat \in {0, 1}}
    \cup {Pad(<<CMD_SET_RANGE, 0, s, k>> \o Payload(0, k), 3 + (3 * k)) :
            s \in {0, MAX_TOTAL_LEDS}, k \in {1, MaxCount}}
FramesSetAll ==
  {Pad(<<CMD_SET_ALL>> \o Payload(pat, MAX_TOTAL_LEDS), n) :
     pat \in {0, 1},
     n \in {3 * total_leds, 1 + (3 * total_leds), 1 + (3 * MAX_TOTAL_LEDS)}}
FramesConfig ==
  {<<CMD_CONFIG, 1, 0>>}
    \cup {<<CMD_CONFIG, s, Hi(l), Lo(l)>> :
            s \in 0 .. (MAX_STRIPS + 1),
            l \in (0 .. (MAX_LEDS_PER_STRIP + 1)) \cup {U8 + 1}}
    \cup {<<CMD_CONFIG, s, 0, l, d>> :
            s \in {0, 1, MAX_STRIPS}, l \in {1, MAX_LEDS_PER_STRIP, MAX_LEDS_PER_STRIP + 1},
            d \in {0, 1}}

Frames == FramesPing \cup FramesUnknown \cup FramesSetPixel \cup FramesSetBrightness
            \cup FramesShow \cup FramesClear \cup FramesSetRange \cup FramesSetAll
            \cup FramesConfig

(***************************************************************************)
(* loop(), lines 400-426                                                   *)
(***************************************************************************)
decoder_vars == <<leds, active_strips, leds_per_strip, total_leds, global_brightness,
                  debug_logging, frames_rendered, zero_payload_packets>>

\* line 401: memset(spi_rx_buffer, 0, ...); a new iteration has shown nothing yet
LoopTop ==
  /\ pc = "top"
  /\ spi_rx_buffer' = <<>>
  /\ rx_bytes' = 0
  /\ shown' = <<>>
  /\ l2p_calls' = {}
  /\ pc' = "transmit"
  /\ UNCHANGED rp_vars
  /\ UNCHANGED decoder_vars

\* lines 408-410, 424: a timeout, a driver error, or an exchange of zero bits
TransmitNone ==
  /\ pc = "transmit"
  /\ pc' = "top"
  /\ UNCHANGED rp_vars
  /\ UNCHANGED <<decoder_vars, spi_rx_buffer, rx_bytes, shown, l2p_calls>>

\* lines 410-422: an exchange of 1..7 bits: bytes = trans_len / 8 = 0
TransmitBits ==
  /\ pc = "transmit"
  /\ rx_bytes' = 0
  /\ pc' = "process"
  /\ UNCHANGED rp_vars
  /\ UNCHANGED <<decoder_vars, spi_rx_buffer, shown, l2p_calls>>

\* lines 410-422: an exchange of Len(f) whole bytes
TransmitFrame ==
  /\ pc = "transmit"
  /\ \E f \in Frames :
       /\ spi_rx_buffer' = f
       /\ rx_bytes' = Len(f)
  /\ pc' = "process"
  /\ UNCHANGED rp_vars
  /\ UNCHANGED <<decoder_vars, shown, l2p_calls>>

(***************************************************************************)
(* process_command(spi_rx_buffer, bytes), lines 111-301                    *)
(***************************************************************************)
cmd == At(spi_rx_buffer, 0)

\* an OR that starts at the opcode byte
ZeroPayloadFromOpcode(data, length) ==
  /\ length > 1
  /\ \A i \in 0 .. (length - 1) : At(data, i) = 0

\* lines 118-127
ZeroPayload(data, length) ==
  /\ length > 1
  /\ \A i \in 1 .. (length - 1) : At(data, i) = 0

PreCheck ==
  /\ ZeroPayload(spi_rx_buffer, rx_bytes) => zero_payload_packets < MaxZeroPayload
  /\ zero_payload_packets' =
       IF ZeroPayload(spi_rx_buffer, rx_bytes)
       THEN Inc32(zero_payload_packets)
       ELSE zero_payload_packets

\* a show() call that is left out
ShowSkipped(log, buf) == log

\* FastLED.show(): the driver is handed the pixel buffer as it is now
Show(log, buf) == Append(log, buf)

\* FastLED.show() followed by frames_rendered++ (lines 165-167, 184-185, 245-247)
ShowAndCount(buf) ==
  /\ frames_rendered < MaxFrames
  /\ shown' = Show(shown, buf)
  /\ frames_rendered' = Inc32(frames_rendered)

\* lines 112-114
ProcessEmpty ==
  /\ pc = "process" /\ rx_bytes = 0
  /\ pc' = "top"
  /\ UNCHANGED rp_vars
  /\ UNCHANGED <<decoder_vars, spi_rx_buffer, rx_bytes, shown, l2p_calls>>

\* lines 130-134
CmdPing ==
  /\ pc = "process" /\ rx_bytes > 0 /\ cmd = CMD_PING
  /\ PreCheck
  /\ pc' = "top"
  /\ UNCHANGED rp_vars
  /\ UNCHANGED <<leds, active_strips, leds_per_strip, total_leds, global_brightness,
                 debug_logging, frames_rendered, l2p_calls, spi_rx_buffer, rx_bytes,
                 shown>>

\* an inclusive bound check
PixelInRangeInclusive(pixel) == pixel <= total_leds

\* line 146
PixelInRange(pixel) == pixel < total_leds

\* a set-pixel that uses the logical index as the slot
SetPixelResultUntranslated(buf, data, length) ==
  IF length < 6 THEN buf
  ELSE IF PixelInRange(Be16(At(data, 1), At(data, 2)))
       THEN [buf EXCEPT ![Be16(At(data, 1), At(data, 2))] =
                          CRGB(At(data, 3), At(data, 4), At(data, 5))]
       ELSE buf

\* a set-pixel whose write is held back
SetPixelResultDeferred(buf, data, length) == buf

\* lines 136-150
SetPixelResult(buf, data, length) ==
  IF length < 6 THEN buf
  ELSE IF PixelInRange(Be16(At(data, 1), At(data, 2)))
       THEN [buf EXCEPT ![logical_to_physical(Be16(At(data, 1), At(data, 2)),
                                              active_strips, leds_per_strip)] =
                          CRGB(At(data, 3), At(data, 4), At(data, 5))]
       ELSE buf

SetPixelCalls(data, length) ==
  IF length >= 6 /\ PixelInRange(Be16(At(data, 1), At(data, 2)))
  THEN {Be16(At(data, 1), At(data, 2))}
  ELSE {}

CmdSetPixel ==
  /\ pc = "process" /\ rx_bytes > 0 /\ cmd = CMD_SET_PIXEL
  /\ PreCheck
  /\ leds' = SetPixelResult(leds, spi_rx_buffer, rx_bytes)
  /\ l2p_calls' = l2p_calls \cup SetPixelCalls(spi_rx_buffer, rx_bytes)
  /\ pc' = "top"
  /\ UNCHANGED rp_vars
  /\ UNCHANGED <<active_strips, leds_per_strip, total_leds, global_brightness,
                 debug_logging, frames_rendered, spi_rx_buffer, rx_bytes, shown>>

\* lines 152-161
CmdSetBrightness ==
  /\ pc = "process" /\ rx_bytes > 0 /\ cmd = CMD_SET_BRIGHTNESS
  /\ PreCheck
  /\ global_brightness' = IF rx_bytes < 2 THEN global_brightness
                          ELSE At(spi_rx_buffer, 1)
  /\ pc' = "top"
  /\ UNCHANGED rp_vars
  /\ UNCHANGED <<leds, active_strips, leds_per_strip, total_leds, debug_logging,
                 frames_rendered, l2p_calls, spi_rx_buffer, rx_bytes,
                 shown>>

\* lines 163-171
CmdShow ==
  /\ pc = "process" /\ rx_bytes > 0 /\ cmd = CMD_SHOW
  /\ PreCheck
  /\ ShowAndCount(leds)
  /\ pc' = "top"
  /\ UNCHANGED rp_vars
  /\ UNCHANGED <<leds, active_strips, leds_per_strip, total_leds, global_brightness,
                 debug_logging, l2p_calls, spi_rx_buffer, rx_bytes>>

\* lines 173-188
CmdClear ==
  /\ pc = "process" /\ rx_bytes > 0 /\ cmd = CMD_CLEAR
  /\ PreCheck
  /\ leds' = BlankAll(leds)
  /\ ShowAndCount(leds')
  /\ pc' = "top"
  /\ UNCHANGED rp_vars
  /\ UNCHANGED <<active_strips, leds_per_strip, total_leds, global_brightness,
                 debug_logging, l2p_calls, spi_rx_buffer, rx_bytes>>

\* lines 207-209: uint8_t count after the clamp to the end of the logical space
RangeCount(start, count) ==
  IF start + count > total_leds THEN (total_leds - start) % U8 ELSE count

\* the payload triple read in the order b, g, r
RangeWriteSwapped(buf, data, logical, i) ==
  [buf EXCEPT ![logical_to_physical(logical, active_strips, leds_per_strip)] =
     CRGB(At(data, 6 + (3 * i)), At(data, 5 + (3 * i)), At(data, 4 + (3 * i)))]

\* lines 216-217: iteration i writes the i-th payload triple
RangeWrite(buf, data, logical, i) ==
  [buf EXCEPT ![logical_to_physical(logical, active_strips, leds_per_strip)] =
     CRGB(At(data, 4 + (3 * i)), At(data, 5 + (3 * i)), At(data, 6 + (3 * i)))]

\* lines 211-218: the write loop, from iteration i on
RECURSIVE RangeLoop(_, _, _, _, _)
RangeLoop(buf, data, start, count, i) ==
  IF i >= count THEN buf
  ELSE IF (start + i) % U16 >= total_leds THEN buf
  ELSE RangeLoop(RangeWrite(buf, data, (start + i) % U16, i), data, start, count, i + 1)

\* a decoder that rejects a range reaching past the end of the logical space
RangeAcceptedStrict(data, length) ==
  /\ length >= 4
  /\ Be16(At(data, 1), At(data, 2)) < total_leds
  /\ length >= 4 + (At(data, 3) * 3)
  /\ Be16(At(data, 1), At(data, 2)) + At(data, 3) <= total_leds

\* lines 190-220
RangeAccepted(data, length) ==
  /\ length >= 4
  /\ Be16(At(data, 1), At(data, 2)) < total_leds
  /\ length >= 4 + (At(data, 3) * 3)

SetRangeResult(buf, data, length) ==
  IF RangeAccepted(data, length)
  THEN RangeLoop(buf, data, Be16(At(data, 1), At(data, 2)),
                 RangeCount(Be16(At(data, 1), At(data, 2)), At(data, 3)), 0)
  ELSE buf

\* the logical indices the loop of lines 211-218 translates
SetRangeCalls(data, length) ==
  IF RangeAccepted(data, length)
  THEN {(Be16(At(data, 1), At(data, 2)) + i) % U16 :
          i \in {j \in 0 .. (RangeCount(Be16(At(data, 1), At(data, 2)), At(data, 3)) - 1) :
                   \A h \in 0 .. j : (Be16(At(data, 1), At(data, 2)) + h) % U16 < total_leds}}
  ELSE {}

CmdSetRange ==
  /\ pc = "process" /\ rx_bytes > 0 /\ cmd = CMD_SET_RANGE
  /\ PreCheck
  /\ leds' = SetRangeResult(leds, spi_rx_buffer, rx_bytes)
  /\ l2p_calls' = l2p_calls \cup SetRangeCalls(spi_rx_buffer, rx_bytes)
  /\ pc' = "top"
  /\ UNCHANGED rp_vars
  /\ UNCHANGED <<active_strips, leds_per_strip, total_leds, global_brightness,
                 debug_logging, frames_rendered, spi_rx_buffer, rx_bytes,
                 shown>>

\* lines 229-232: the copy loop, from logical pixel `logical` on
RECURSIVE SetAllLoop(_, _, _)
SetAllLoop(buf, data, logical) ==
  IF logical >= total_leds THEN buf
  ELSE SetAllLoop(
         [buf EXCEPT ![logical_to_physical(logical, active_strips, leds_per_strip)] =
            CRGB(At(data, 1 + (3 * logical)), At(data, 2 + (3 * logical)),
                 At(data, 3 + (3 * logical)))],
         data, logical + 1)

\* lines 223-227
SetAllAccepted(length) == length >= 1 + (total_leds * 3)

SetAllCalls(length) ==
  IF SetAllAccepted(length) THEN 0 .. (total_leds - 1) ELSE {}

\* lines 222-250
CmdSetAll ==
  /\ pc = "process" /\ rx_bytes > 0 /\ cmd = CMD_SET_ALL
  /\ PreCheck
  /\ IF SetAllAccepted(rx_bytes)
     THEN /\ leds' = BlankUnused(SetAllLoop(leds, spi_rx_buffer, 0), active_strips,
                                 leds_per_strip)
          /\ ShowAndCount(leds')
     ELSE UNCHANGED <<leds, shown, frames_rendered>>
  /\ l2p_calls' = l2p_calls \cup SetAllCalls(rx_bytes)
  /\ pc' = "top"
  /\ UNCHANGED rp_vars
  /\ UNCHANGED <<active_strips, leds_per_strip, total_leds, global_brightness,
                 debug_logging, spi_rx_buffer, rx_bytes>>

\* the checks of CMD_CONFIG without the upper bound of the per-strip length
ConfigAcceptedAnyLength(data, length) ==
  /\ length >= 4
  /\ ~(At(data, 1) = 0 \/ At(data, 1) > MAX_STRIPS)
  /\ ~(Be16(At(data, 2), At(data, 3)) = 0)

\* lines 253-267: the frame passes every check of CMD_CONFIG
ConfigAccepted(data, length) ==
  /\ length >= 4
  /\ ~(At(data, 1) = 0 \/ At(data, 1) > MAX_STRIPS)
  /\ ~(Be16(At(data, 2), At(data, 3)) = 0 \/ Be16(At(data, 2), At(data, 3)) > MAX_LEDS_PER_STRIP)

\* total_leds left as it was
ConfigTotalStale(strips, len) == total_leds

\* line 271
ConfigTotal(strips, len) == (strips * len) % U16

\* lines 284-289
ConfigDebug(data, length) ==
  IF length >= 5 THEN At(data, 4) # 0 ELSE debug_logging

\* lines 252-294
CmdConfig ==
  /\ pc = "process" /\ rx_bytes > 0 /\ cmd = CMD_CONFIG
  /\ PreCheck
  /\ IF ConfigAccepted(spi_rx_buffer, rx_bytes)
     THEN /\ active_strips' = At(spi_rx_buffer, 1)
          /\ leds_per_strip' = Be16(At(spi_rx_buffer, 2), At(spi_rx_buffer, 3))
          /\ total_leds' = ConfigTotal(active_strips', leds_per_strip')
          /\ leds' = BlankUnused(leds, active_strips', leds_per_strip')
          /\ shown' = Show(shown, leds')
          /\ debug_logging' = ConfigDebug(spi_rx_buffer, rx_bytes)
     ELSE UNCHANGED <<active_strips, leds_per_strip, total_leds, leds, shown,
                      debug_logging>>
  /\ pc' = "top"
  /\ UNCHANGED rp_vars
  /\ UNCHANGED <<global_brightness, frames_rendered, l2p_calls,
                 spi_rx_buffer, rx_bytes>>

\* lines 296-299
CmdUnknown ==
  /\ pc = "process" /\ rx_bytes > 0
  /\ cmd \notin {CMD_PING, CMD_SET_PIXEL, CMD_SET_BRIGHTNESS, CMD_SHOW, CMD_CLEAR,
                 CMD_SET_RANGE, CMD_SET_ALL, CMD_CONFIG}
  /\ PreCheck
  /\ pc' = "top"
  /\ UNCHANGED rp_vars
  /\ UNCHANGED <<leds, active_strips, leds_per_strip, total_leds, global_brightness,
                 debug_logging, frames_rendered, l2p_calls,
                 spi_rx_buffer, rx_bytes, shown>>

(***************************************************************************)
(* RP2040: chip-select interrupt, RX DMA and main loop (src/src/main.cpp)  *)
(***************************************************************************)
ZeroBuffer == [i \in DmaIdx |-> 0]
NoLocals == [cmd |-> 0, idx |-> 0, count |-> 0, i |-> 0, r |-> 0, g |-> 0]
NoSnap == [id |-> 0, n |-> 0, buf |-> ZeroBuffer, seq |-> 0]
\* a published transaction together with the pixel store, brightness and frame
\* counter the main loop had when it consumed the ready flag
Consumed(snap, store, brightness, frames) ==
  [id |-> snap.id, n |-> snap.n, buf |-> snap.buf,
   leds |-> store, brightness |-> brightness, frames |-> frames]

\* the state setup() leaves (lines 43-52, 276-295)
RpInit ==
  /\ dma_buffer = ZeroBuffer
  /\ transfer_count = 0
  /\ transaction_complete = FALSE
  /\ bytes_received = 0
  /\ rp_leds = [i \in RpPixels |-> Black]
  /\ rp_brightness = 50
  /\ framesRendered = 0
  /\ packetsReceived = 0
  /\ rp_shown = <<>>
  /\ pcm = "loop"
  /\ loc = NoLocals
  /\ cs = "high"
  /\ tx = <<>>
  /\ txns = 0
  /\ ready_snap = NoSnap
  /\ dec_snap = Consumed(NoSnap, [i \in RpPixels |-> Black], 50, 0)
  /\ decoded = <<>>
  /\ torn = FALSE
  /\ dec_src = {}
  /\ rd = {}
  /\ applied = <<>>

\* frames of the interleaving model: one per opcode, and an empty transaction
RaceFrames ==
  { <<>>,
    <<CMD_PING>>,
    <<CMD_SET_PIXEL, 0, 1, 1, 2, 3>>,
    <<CMD_SET_BRIGHTNESS, 7>>,
    <<CMD_SHOW>>,
    <<CMD_CLEAR>>,
    <<CMD_SET_RANGE, 0, 0, 1, 1, 2, 3>>,
    <<CMD_SET_ALL_PIXELS, 1, 2, 3, 0, 0, 0>>,
    <<8>> }

\* bytes the RX DMA has written since it was last configured
DmaWritten == IF txns = 0 THEN 0 ELSE DMA_BUFFER_SIZE - transfer_count

main_side == <<rp_leds, rp_brightness, framesRendered, packetsReceived, rp_shown, pcm,
               loc, dec_snap, decoded, torn, dec_src, rd, applied>>
isr_side == <<dma_buffer, transfer_count, bytes_received, cs, tx, txns, ready_snap>>

\* lines 58-101: falling edge: clear the buffer and start the RX DMA
Fall(frames) ==
  /\ cs = "high"
  /\ txns < MaxTxns
  /\ \E f \in frames : tx' = f
  /\ cs' = "low"
  /\ txns' = txns + 1
  /\ dma_buffer' = ZeroBuffer
  /\ transfer_count' = DMA_BUFFER_SIZE
  /\ UNCHANGED <<transaction_complete, bytes_received, ready_snap, main_side, esp_vars>>

CsFall == Fall(RaceFrames)

\* frames of a master that paces itself: every opcode with in-range, boundary
\* and out-of-range fields, complete and truncated
RpTriples == <<1, 2, 3, 4, 5, 6>>
RpStarts == {0, 1, TOTAL_LEDS, U16 - 1}
QuietFrames ==
  { <<>>, <<CMD_PING>>, <<8>>, <<8, 1>>, <<CMD_SET_BRIGHTNESS, 7>>, <<CMD_SET_BRIGHTNESS>>,
    <<CMD_SHOW>>, <<CMD_CLEAR>>, <<CMD_CLEAR, 1>>,
    <<CMD_SET_PIXEL, 0, 0, 1, 2>>, <<CMD_SET_PIXEL>>, <<CMD_SET_RANGE, 0, 0>> }
    \cup {<<CMD_SET_PIXEL, Hi(p), Lo(p), 1, 2, 3>> : p \in RpStarts}
    \cup {<<CMD_SET_RANGE, Hi(st), Lo(st), k>> \o SubSeq(RpTriples, 1, 3 * k) :
            st \in RpStarts, k \in 0 .. TOTAL_LEDS}
    \cup {<<CMD_SET_RANGE, 0, 0, k>> \o SubSeq(RpTriples, 1, (3 * k) - 1) :
            k \in 1 .. TOTAL_LEDS}
    \cup {<<CMD_SET_ALL_PIXELS>> \o SubSeq(RpTriples, 1, n) :
            n \in {(3 * TOTAL_LEDS) - 1, 3 * TOTAL_LEDS}}
    \cup {<<CMD_SET_ALL_PIXELS>> \o RpTriples \o <<9>>}

\* a transaction that starts only when the previous frame has been consumed:
\* the ready flag is clear and loop() is back at its poll
CsFallQuiet ==
  /\ pcm = "loop"
  /\ ~transaction_complete
  /\ Fall(QuietFrames)

\* lines 88-101: the RX DMA moves the next clocked byte into the buffer
DmaByte ==
  /\ cs = "low"
  /\ transfer_count > 0
  /\ DmaWritten < Len(tx)
  /\ dma_buffer' = [dma_buffer EXCEPT ![DmaWritten] = tx[DmaWritten + 1]]
  /\ transfer_count' = transfer_count - 1
  /\ UNCHANGED <<transaction_complete, bytes_received, cs, tx, txns, ready_snap,
                 main_side, esp_vars>>

\* a count that is never zero
RiseCountAtLeastOne ==
  IF transfer_count = DMA_BUFFER_SIZE THEN 1 ELSE (DMA_BUFFER_SIZE - transfer_count) % U16

\* line 114
RiseCount == (DMA_BUFFER_SIZE - transfer_count) % U16

\* lines 103-122: rising edge: stop the DMA, publish the count, mark ready
CsRise ==
  /\ cs = "low"
  /\ DmaWritten = Len(tx) \/ transfer_count = 0
  /\ cs' = "high"
  /\ bytes_received' = RiseCount
  /\ transaction_complete' = IF RiseCount > 0 THEN TRUE ELSE transaction_complete
  /\ ready_snap' = IF RiseCount > 0
                   THEN [id |-> txns, n |-> RiseCount, buf |-> dma_buffer,
                         seq |-> ready_snap.seq + 1]
                   ELSE ready_snap
  /\ UNCHANGED <<dma_buffer, transfer_count, tx, txns, main_side, esp_vars>>

\* where the byte at dma_buffer[0] comes from: transaction k, completed (k),
\* transaction k, still being clocked in (-k), or the memset of line 64 (0)
OpcodeSource ==
  IF DmaWritten = 0 THEN 0 ELSE IF cs = "high" THEN txns ELSE 0 - txns

\* what a step of the decode that reads the count (cnt) and the buffer bytes I
\* adds to the record of the decode; field: the bytes are command fields
ReadGhost(I, cnt, field) ==
  /\ torn' = (\/ torn
              \/ (cnt /\ bytes_received # dec_snap.n)
              \/ (\E i \in I : dma_buffer[i] # dec_snap.buf[i]))
  /\ dec_src' = IF field /\ (\E i \in I : i < DmaWritten)
                THEN dec_src \cup {txns} ELSE dec_src
  /\ rd' = rd \cup I
  /\ applied' = IF field /\ 0 \in I
                THEN Append(applied, OpcodeSource)
                ELSE applied

\* a step of the main loop leaves the interrupt side alone
MainStep == UNCHANGED <<isr_side, esp_vars>>

\* line 371
LoopPoll ==
  /\ pcm = "loop"
  /\ transaction_complete
  /\ pcm' = "clear"
  /\ MainStep
  /\ UNCHANGED <<transaction_complete, rp_leds, rp_brightness, framesRendered,
                 packetsReceived, rp_shown, loc, dec_snap, decoded, torn, dec_src, rd, applied>>

\* line 372
LoopClear ==
  /\ pcm = "clear"
  /\ transaction_complete' = FALSE
  /\ dec_snap' = Consumed(ready_snap, rp_leds, rp_brightness, framesRendered)
  /\ decoded' = Append(decoded, ready_snap.id)
  /\ torn' = FALSE
  /\ dec_src' = {}
  /\ rd' = {}
  /\ rp_shown' = <<>>
  /\ pcm' = "check"
  /\ MainStep
  /\ UNCHANGED <<rp_leds, rp_brightness, framesRendered, packetsReceived, loc, applied>>

\* line 375
LoopCheck ==
  /\ pcm = "check"
  /\ ReadGhost({}, TRUE, FALSE)
  /\ pcm' = IF bytes_received > 0 THEN "entry" ELSE "loop"
  /\ MainStep
  /\ UNCHANGED <<transaction_complete, rp_leds, rp_brightness, framesRendered,
                 packetsReceived, rp_shown, loc, dec_snap, decoded>>

\* line 377, after processCommand() returned
LoopCount ==
  /\ pcm = "done"
  /\ packetsReceived' = Inc32(packetsReceived)
  /\ loc' = NoLocals
  /\ pcm' = "loop"
  /\ MainStep
  /\ UNCHANGED <<transaction_complete, rp_leds, rp_brightness, framesRendered, rp_shown,
                 dec_snap, decoded, torn, dec_src, rd, applied>>

\* a step of processCommand() leaves the loop's own variables alone
DecodeStep ==
  /\ MainStep
  /\ UNCHANGED <<transaction_complete, packetsReceived, dec_snap, decoded>>

pixel_store == <<rp_leds, rp_brightness, framesRendered, rp_shown>>

\* line 143: switch (cmd)
Dispatch(c) ==
  CASE c = CMD_PING -> "ping"
    [] c = CMD_SET_PIXEL -> "px_len"
    [] c = CMD_SET_BRIGHTNESS -> "br_len"
    [] c = CMD_SHOW -> "show"
    [] c = CMD_CLEAR -> "clr"
    [] c = CMD_SET_RANGE -> "rg_len"
    [] c = CMD_SET_ALL_PIXELS -> "all_len"
    [] OTHER -> "unknown"

\* lines 128-141: entry check, opcode read, and the checksum loop over the
\* whole buffer (its value is only printed)
PcEntry ==
  /\ \/ /\ pcm = "entry"
        /\ ReadGhost({}, TRUE, FALSE)
        /\ pcm' = IF bytes_received = 0 THEN "done" ELSE "cmd"
        /\ UNCHANGED loc
     \/ /\ pcm = "cmd"
        /\ loc' = [loc EXCEPT !.cmd = dma_buffer[0]]
        /\ ReadGhost({0}, FALSE, TRUE)
        /\ pcm' = "cksum"
     \/ /\ pcm = "cksum"
        /\ ReadGhost(DmaIdx, TRUE, FALSE)
        /\ pcm' = Dispatch(loc.cmd)
        /\ UNCHANGED loc
  /\ UNCHANGED pixel_store
  /\ DecodeStep

\* lines 144-146
RpPing ==
  /\ pcm = "ping"
  /\ pcm' = "done"
  /\ UNCHANGED <<loc, torn, dec_src, rd, applied, pixel_store>>
  /\ DecodeStep

\* lines 242-245
RpUnknown ==
  /\ pcm = "unknown"
  /\ pcm' = "done"
  /\ UNCHANGED <<loc, torn, dec_src, rd, applied, pixel_store>>
  /\ DecodeStep

\* lines 155-157, 205-210: leds.setPixelColor(pixel, leds.Color(r, g, b)) under
\* the guard pixel < TOTAL_LEDS
SetPixelColor(store, pixel, r, g, b) ==
  IF pixel < TOTAL_LEDS THEN [store EXCEPT ![pixel] = CRGB(r, g, b)] ELSE store

\* lines 148-168
RpSetPixel ==
  /\ \/ /\ pcm = "px_len"
        /\ ReadGhost({}, TRUE, FALSE)
        /\ pcm' = IF bytes_received >= 6 THEN "px_idx" ELSE "done"
        /\ UNCHANGED <<loc, rp_leds>>
     \/ /\ pcm = "px_idx"
        /\ loc' = [loc EXCEPT !.idx = Be16(dma_buffer[1], dma_buffer[2])]
        /\ ReadGhost({1, 2}, FALSE, TRUE)
        /\ pcm' = "px_r"
        /\ UNCHANGED rp_leds
     \/ /\ pcm = "px_r"
        /\ loc' = [loc EXCEPT !.r = dma_buffer[3]]
        /\ ReadGhost({3}, FALSE, TRUE)
        /\ pcm' = "px_g"
        /\ UNCHANGED rp_leds
     \/ /\ pcm = "px_g"
        /\ loc' = [loc EXCEPT !.g = dma_buffer[4]]
        /\ ReadGhost({4}, FALSE, TRUE)
        /\ pcm' = "px_b"
        /\ UNCHANGED rp_leds
     \/ /\ pcm = "px_b"
        /\ rp_leds' = SetPixelColor(rp_leds, loc.idx, loc.r, loc.g, dma_buffer[5])
        /\ ReadGhost({5}, FALSE, TRUE)
        /\ pcm' = "done"
        /\ UNCHANGED loc
  /\ UNCHANGED <<rp_brightness, framesRendered, rp_shown>>
  /\ DecodeStep

\* lines 170-176
RpSetBrightness ==
  /\ \/ /\ pcm = "br_len"
        /\ ReadGhost({}, TRUE, FALSE)
        /\ pcm' = IF bytes_received >= 2 THEN "br_set" ELSE "done"
        /\ UNCHANGED rp_brightness
     \/ /\ pcm = "br_set"
        /\ rp_brightness' = dma_buffer[1]
        /\ ReadGhost({1}, FALSE, TRUE)
        /\ pcm' = "done"
  /\ UNCHANGED <<loc, rp_leds, framesRendered, rp_shown>>
  /\ DecodeStep

\* lines 179-180, 188-189: leds.show(); framesRendered++
RpShowAndCount(buf) ==
  /\ rp_shown' = Show(rp_shown, buf)
  /\ framesRendered' = Inc32(framesRendered)

\* lines 178-182
RpShow ==
  /\ pcm = "show"
  /\ RpShowAndCount(rp_leds)
  /\ pcm' = "done"
  /\ UNCHANGED <<loc, rp_leds, rp_brightness, torn, dec_src, rd, applied>>
  /\ DecodeStep

\* lines 184-191
RpClear ==
  /\ pcm = "clr"
  /\ rp_leds' = [i \in RpPixels |-> Black]
  /\ RpShowAndCount(rp_leds')
  /\ pcm' = "done"
  /\ UNCHANGED <<loc, rp_brightness, torn, dec_src, rd, applied>>
  /\ DecodeStep

\* line 197
RpExpectedBytes(count) == (4 + (count * 3)) % U16

\* line 201
RpRangePixel(start, i) == (start + i) % U16

\* lines 193-215
RpSetRange ==
  /\ \/ /\ pcm = "rg_len"
        /\ ReadGhost({}, TRUE, FALSE)
        /\ pcm' = IF bytes_received >= 4 THEN "rg_start" ELSE "done"
        /\ UNCHANGED <<loc, rp_leds>>
     \/ /\ pcm = "rg_start"
        /\ loc' = [loc EXCEPT !.idx = Be16(dma_buffer[1], dma_buffer[2])]
        /\ ReadGhost({1, 2}, FALSE, TRUE)
        /\ pcm' = "rg_count"
        /\ UNCHANGED rp_leds
     \/ /\ pcm = "rg_count"
        /\ loc' = [loc EXCEPT !.count = dma_buffer[3], !.i = 0]
        /\ ReadGhost({3}, FALSE, TRUE)
        /\ pcm' = "rg_exp"
        /\ UNCHANGED rp_leds
     \/ /\ pcm = "rg_exp"
        /\ ReadGhost({}, TRUE, FALSE)
        /\ pcm' = IF bytes_received >= RpExpectedBytes(loc.count) THEN "rg_loop" ELSE "done"
        /\ UNCHANGED <<loc, rp_leds>>
     \/ /\ pcm = "rg_loop"
        /\ IF loc.i >= loc.count
           THEN pcm' = "done" /\ UNCHANGED loc
           ELSE IF RpRangePixel(loc.idx, loc.i) < TOTAL_LEDS
                THEN pcm' = "rg_r" /\ UNCHANGED loc
                ELSE pcm' = "rg_loop" /\ loc' = [loc EXCEPT !.i = loc.i + 1]
        /\ UNCHANGED <<rp_leds, torn, dec_src, rd, applied>>
     \/ /\ pcm = "rg_r"
        /\ loc' = [loc EXCEPT !.r = dma_buffer[4 + (loc.i * 3)]]
        /\ ReadGhost({4 + (loc.i * 3)}, FALSE, TRUE)
        /\ pcm' = "rg_g"
        /\ UNCHANGED rp_leds
     \/ /\ pcm = "rg_g"
        /\ loc' = [loc EXCEPT !.g = dma_buffer[4 + (loc.i * 3) + 1]]
        /\ ReadGhost({4 + (loc.i * 3) + 1}, FALSE, TRUE)
        /\ pcm' = "rg_b"
        /\ UNCHANGED rp_leds
     \/ /\ pcm = "rg_b"
        /\ rp_leds' = SetPixelColor(rp_leds, RpRangePixel(loc.idx, loc.i), loc.r, loc.g,
                                    dma_buffer[4 + (loc.i * 3) + 2])
        /\ ReadGhost({4 + (loc.i * 3) + 2}, FALSE, TRUE)
        /\ loc' = [loc EXCEPT !.i = loc.i + 1]
        /\ pcm' = "rg_loop"
  /\ UNCHANGED <<rp_brightness, framesRendered, rp_shown>>
  /\ DecodeStep

\* a length check that lets a frame one byte short through
RpAllExpectedBytesOneShort == (TOTAL_LEDS * 3) % U16

\* line 220
RpAllExpectedBytes == (1 + (TOTAL_LEDS * 3)) % U16

\* lines 217-240
RpSetAllPixels ==
  /\ \/ /\ pcm = "all_len"
        /\ ReadGhost({}, TRUE, FALSE)
        /\ pcm' = IF bytes_received >= RpAllExpectedBytes THEN "all_loop" ELSE "done"
        /\ loc' = [loc EXCEPT !.i = 0]
        /\ UNCHANGED rp_leds
     \/ /\ pcm = "all_loop"
        /\ pcm' = IF loc.i < TOTAL_LEDS THEN "all_r" ELSE "done"
        /\ UNCHANGED <<loc, rp_leds, torn, dec_src, rd, applied>>
     \/ /\ pcm = "all_r"
        /\ loc' = [loc EXCEPT !.r = dma_buffer[1 + (loc.i * 3)]]
        /\ ReadGhost({1 + (loc.i * 3)}, FALSE, TRUE)
        /\ pcm' = "all_g"
        /\ UNCHANGED rp_leds
     \/ /\ pcm = "all_g"
        /\ loc' = [loc EXCEPT !.g = dma_buffer[1 + (loc.i * 3) + 1]]
        /\ ReadGhost({1 + (loc.i * 3) + 1}, FALSE, TRUE)
        /\ pcm' = "all_b"
        /\ UNCHANGED rp_leds
     \/ /\ pcm = "all_b"
        /\ rp_leds' = SetPixelColor(rp_leds, loc.i, loc.r, loc.g,
                                    dma_buffer[1 + (loc.i * 3) + 2])
        /\ ReadGhost({1 + (loc.i * 3) + 2}, FALSE, TRUE)
        /\ loc' = [loc EXCEPT !.i = loc.i + 1]
        /\ pcm' = "all_loop"
  /\ UNCHANGED <<rp_brightness, framesRendered, rp_shown>>
  /\ DecodeStep

RpNext ==
  \/ CsFall
  \/ DmaByte
  \/ CsRise
  \/ LoopPoll
  \/ LoopClear
  \/ LoopCheck
  \/ LoopCount
  \/ PcEntry
  \/ RpPing
  \/ RpUnknown
  \/ RpSetPixel
  \/ RpSetBrightness
  \/ RpShow
  \/ RpClear
  \/ RpSetRange
  \/ RpSetAllPixels

\* the RP2040 with a master that waits for each frame to be consumed
RpQuietNext ==
  \/ CsFallQuiet
  \/ DmaByte
  \/ CsRise
  \/ LoopPoll
  \/ LoopClear
  \/ LoopCheck
  \/ LoopCount
  \/ PcEntry
  \/ RpPing
  \/ RpUnknown
  \/ RpSetPixel
  \/ RpSetBrightness
  \/ RpShow
  \/ RpClear
  \/ RpSetRange
  \/ RpSetAllPixels

Init == EspInit /\ RpInit


EspNext ==
  \/ LoopTop
  \/ TransmitNone
  \/ TransmitBits
  \/ TransmitFrame
  \/ ProcessEmpty
  \/ CmdPing
  \/ CmdSetPixel
  \/ CmdSetBrightness
  \/ CmdShow
  \/ CmdClear
  \/ CmdSetRange
  \/ CmdSetAll
  \/ CmdConfig
  \/ CmdUnknown

\* the ESP32 build is in the state setup() left; the RP2040 build likewise
EspFresh == pc = "top" /\ frames_rendered = 0 /\ EspInit
RpFresh == txns = 0 /\ RpInit

\* a board runs one of the two firmware builds: the other one never starts
BothNext ==
  \/ RpFresh /\ LoopTop
  \/ RpFresh /\ TransmitNone
  \/ RpFresh /\ TransmitBits
  \/ RpFresh /\ TransmitFrame
  \/ RpFresh /\ ProcessEmpty
  \/ RpFresh /\ CmdPing
  \/ RpFresh /\ CmdSetPixel
  \/ RpFresh /\ CmdSetBrightness
  \/ RpFresh /\ CmdShow
  \/ RpFresh /\ CmdClear
  \/ RpFresh /\ CmdSetRange
  \/ RpFresh /\ CmdSetAll
  \/ RpFresh /\ CmdConfig
  \/ RpFresh /\ CmdUnknown
  \/ EspFresh /\ CsFallQuiet
  \/ EspFresh /\ DmaByte
  \/ EspFresh /\ CsRise
  \/ EspFresh /\ LoopPoll
  \/ EspFresh /\ LoopClear
  \/ EspFresh /\ LoopCheck
  \/ EspFresh /\ LoopCount
  \/ EspFresh /\ PcEntry
  \/ EspFresh /\ RpPing
  \/ EspFresh /\ RpUnknown
  \/ EspFresh /\ RpSetPixel
  \/ EspFresh /\ RpSetBrightness
  \/ EspFresh /\ RpShow
  \/ EspFresh /\ RpClear
  \/ EspFresh /\ RpSetRange
  \/ EspFresh /\ RpSetAllPixels

SpecEsp == Init /\ [][EspNext]_vars
SpecRp == Init /\ [][RpNext]_vars
SpecRpQuiet == Init /\ [][RpQuietNext]_vars
SpecBoth == Init /\ [][BothNext]_vars

\* lines 369-379: a step of loop() or of the processCommand() it calls
RpMain ==
  \/ LoopPoll
  \/ LoopClear
  \/ LoopCheck
  \/ LoopCount
  \/ PcEntry
  \/ RpPing
  \/ RpUnknown
  \/ RpSetPixel
  \/ RpSetBrightness
  \/ RpShow
  \/ RpClear
  \/ RpSetRange
  \/ RpSetAllPixels

\* the core calls loop() for ever and the handlers return: the main loop is
\* never halted while it has a step to take
SpecRpLive == Init /\ [][RpNext]_vars /\ WF_vars(RpMain)

(***************************************************************************)
(* Claims                                                                  *)
(***************************************************************************)
StripOf(p) == p \div MAX_LEDS_PER_STRIP
OffsetOf(p) == p % MAX_LEDS_PER_STRIP
Addressable(p, strips, len) == StripOf(p) < strips /\ OffsetOf(p) < len
\* the physical slot of logical pixel i under the configuration (strips, len)
Phys(i, len) == ((i \div len) * MAX_LEDS_PER_STRIP) + (i % len)
\* a command has just been decoded
Decoded == pc = "top" /\ rx_bytes > 0
\* a command is about to be decoded
Decoding == pc = "process" /\ rx_bytes > 0
cfg_vars == <<active_strips, leds_per_strip, total_leds>>

\* C1: in every reachable state every physical slot outside the addressable
\* region (offset >= leds_per_strip in an active strip, or any slot of a strip
\* >= active_strips) holds the idle colour.
C1_UnusedSlotsIdle ==
  \A p \in Slots : ~Addressable(p, active_strips, leds_per_strip) => leds[p] = Black

\* a reconfigure to 1 x 1 has been decoded on a buffer that had been painted
C1_Witness ==
  /\ Decoded /\ cmd = CMD_CONFIG
  /\ active_strips = 1 /\ leds_per_strip = 1
  /\ leds[0] = Tint

\* a decode of the main loop is under way (the flag was cleared, the count
\* has not been incremented yet)
RpDecoding == pcm \notin {"loop", "clear"}

\* the transaction ids of a log are strictly increasing
RECURSIVE Increasing(_)
Increasing(log) ==
  IF Len(log) < 2 THEN TRUE
  ELSE Head(log) < Head(Tail(log)) /\ Increasing(Tail(log))

\* C2 (RP2040): once a transaction has been marked ready, the count and every
\* buffer byte the main loop reads while it decodes that frame are the ones
\* that transaction left: no read of the decode ever sees a value other than
\* the one published with the frame.
C2_FrozenDuringDecode == RpDecoding => ~torn

\* C3 (RP2040): the falling-edge handler never clears the buffer or starts a
\* new capture while the ready flag is set or the main loop has not finished
\* decoding the previous frame.
C3_NoRearmWhileUnconsumed ==
  [][(cs = "high" /\ cs' = "low") => (~transaction_complete /\ ~RpDecoding /\ pcm = "loop")]_vars

\* C4 (both variants; checked on the RP2040): frames are decoded in the order
\* their transactions completed, and the command fields one decode reads are
\* bytes of a single transaction.
C4_InOrderNoMixing == Increasing(decoded) /\ Cardinality(dec_src) <= 1

\* the fields of a reconfigure frame of at least 4 bytes
CfgStrips == At(spi_rx_buffer, 1)
CfgLen == (At(spi_rx_buffer, 2) * U8) + At(spi_rx_buffer, 3)
CfgValid ==
  /\ rx_bytes >= 4
  /\ CfgStrips \in 1 .. MAX_STRIPS
  /\ CfgLen \in 1 .. MAX_LEDS_PER_STRIP

\* C5: once an accepted reconfigure(S, L) has been decoded, the configuration is
\* (S, L) with total_leds = S*L, every slot outside the new region is idle, and
\* the buffer has been handed to the output driver by that same command.
C5_ReconfigureApplies ==
  (Decoded /\ cmd = CMD_CONFIG /\ CfgValid) =>
     /\ active_strips = CfgStrips
     /\ leds_per_strip = CfgLen
     /\ total_leds = CfgStrips * CfgLen
     /\ \A p \in Slots : ~Addressable(p, CfgStrips, CfgLen) => leds[p] = Black
     /\ shown = <<leds>>

\* a shrinking reconfigure has been decoded and a painted pixel survives
C5_Witness ==
  /\ Decoded /\ cmd = CMD_CONFIG /\ CfgValid
  /\ CfgStrips = 1 /\ CfgLen = 2
  /\ leds[1] = Tint

\* C6: a reconfigure frame that is too short or whose strip count or per-strip
\* length is out of range changes neither the configuration, the pixel buffer,
\* brightness, the verbose flag nor the frame counter, and shows nothing.
C6_RejectedReconfigure ==
  [][(Decoding /\ cmd = CMD_CONFIG /\ ~CfgValid) =>
       UNCHANGED <<cfg_vars, leds, global_brightness, debug_logging, frames_rendered,
                   shown>>]_vars

\* a reconfigure with strip count 0 and the verbose byte set has been decoded
C6_Witness ==
  /\ Decoded /\ spi_rx_buffer = <<CMD_CONFIG, 0, 0, 1, 1>>
  /\ \E p \in Slots : leds[p] = Tint

\* the strip geometry of the firmware as built (lines 18-19)
FullScaleStrips == 7
FullScaleLedsPerStrip == 500

\* C7: active_strips and leds_per_strip stay within [1, max], total_leds is their
\* product (which fits 16 bits at full scale) and never exceeds the capacity;
\* the configuration changes only when an accepted reconfigure is decoded.
C7_ConfigurationInvariant ==
  /\ [](/\ active_strips \in 1 .. MAX_STRIPS
        /\ leds_per_strip \in 1 .. MAX_LEDS_PER_STRIP
        /\ total_leds = active_strips * leds_per_strip
        /\ total_leds <= MAX_STRIPS * MAX_LEDS_PER_STRIP
        /\ FullScaleStrips * FullScaleLedsPerStrip < U16)
  /\ [][(cfg_vars' # cfg_vars) => (Decoding /\ cmd = CMD_CONFIG /\ CfgValid)]_vars

\* a reconfigure to the full capacity has been decoded after a smaller one
C7_Witness ==
  /\ Decoded /\ cmd = CMD_CONFIG
  /\ active_strips = MAX_STRIPS /\ leds_per_strip = MAX_LEDS_PER_STRIP
  /\ total_leds = MAX_TOTAL_LEDS
  /\ frames_rendered > 0

\* C8: under the current configuration logical_to_physical is injective over
\* [0, total_leds), equals (i / L) * MAX_LEDS_PER_STRIP + (i % L), and lands
\* inside the buffer, in the addressable part of strip i / L.
C8_TranslationInjective ==
  /\ \A i \in 0 .. (total_leds - 1) :
       /\ logical_to_physical(i, active_strips, leds_per_strip) = Phys(i, leds_per_strip)
       /\ Phys(i, leds_per_strip) \in Slots
       /\ StripOf(Phys(i, leds_per_strip)) = i \div leds_per_strip
       /\ Addressable(Phys(i, leds_per_strip), active_strips, leds_per_strip)
  /\ \A i, j \in 0 .. (total_leds - 1) :
       i # j => logical_to_physical(i, active_strips, leds_per_strip)
                  # logical_to_physical(j, active_strips, leds_per_strip)

\* a set-all has translated every index of a configuration with unused tails
C8_Witness ==
  /\ Decoded /\ cmd = CMD_SET_ALL
  /\ active_strips = 2 /\ leds_per_strip = 2
  /\ l2p_calls = 0 .. 3

\* the fields of a set-range frame of at least 4 bytes
RngStart == (At(spi_rx_buffer, 1) * U8) + At(spi_rx_buffer, 2)
RngCount == At(spi_rx_buffer, 3)
RngFits ==
  /\ rx_bytes >= 4
  /\ RngStart + RngCount <= total_leds
  /\ rx_bytes >= 4 + (3 * RngCount)
\* the i-th colour triple of the payload
RngTriple(i) ==
  <<At(spi_rx_buffer, 4 + (3 * i)), At(spi_rx_buffer, 5 + (3 * i)),
    At(spi_rx_buffer, 6 + (3 * i))>>

\* C9: logical_to_physical is never invoked with an index >= total_leds, so its
\* clamp branch is never taken.
C9_ClampUnreachable ==
  \A logical \in l2p_calls :
     /\ logical < total_leds
     /\ ~L2PClamps(logical, active_strips, leds_per_strip)

\* a set-range clamped to the end of the logical space has translated its indices
C9_Witness ==
  /\ Decoded /\ cmd = CMD_SET_RANGE
  /\ rx_bytes >= 4 /\ RngStart + RngCount > total_leds
  /\ (total_leds - 1) \in l2p_calls

\* C10: a set-range that fits the logical space sets pixels [start, start+count)
\* to the payload colours in order and changes no other slot, nor the
\* configuration, brightness or frame counter; the buffer then stays as it is
\* until the next command, and a render hands exactly that buffer to the driver.
C10_SetRangeThenRender ==
  [][/\ (Decoding /\ cmd = CMD_SET_RANGE /\ RngFits) =>
          /\ \A i \in 0 .. (RngCount - 1) :
               leds'[Phys(RngStart + i, leds_per_strip)] = RngTriple(i)
          /\ \A p \in Slots \ {Phys(RngStart + i, leds_per_strip) : i \in 0 .. (RngCount - 1)} :
               leds'[p] = leds[p]
          /\ UNCHANGED <<cfg_vars, global_brightness, frames_rendered, shown>>
     /\ (pc # "process") => (leds' = leds)
     /\ (Decoding /\ cmd = CMD_SHOW) => (leds' = leds /\ shown' = <<leds>>)]_vars

\* a set-range of three pixels crossing a strip boundary has been decoded
C10_Witness ==
  /\ Decoded /\ cmd = CMD_SET_RANGE /\ RngFits
  /\ active_strips = 2 /\ leds_per_strip = 2
  /\ RngStart = 1 /\ RngCount = 3
  /\ leds[1] = Black /\ leds[3] = Tint /\ leds[4] = Black

\* a set-range frame that starts inside the logical space, reaches past its
\* end and carries its whole payload
RngClamped ==
  /\ rx_bytes >= 4
  /\ RngStart < total_leds
  /\ RngStart + RngCount > total_leds
  /\ rx_bytes >= 4 + (3 * RngCount)

\* C11 (ESP32): a set-range that starts inside the logical space and reaches
\* past its end is applied, clamped: it writes the logical pixels
\* [start, total_leds) from the first total_leds - start payload triples and
\* no other slot.
C11_SetRangeClamped ==
  [][(Decoding /\ cmd = CMD_SET_RANGE /\ RngClamped) =>
       /\ \A i \in 0 .. (total_leds - RngStart - 1) :
            leds'[Phys(RngStart + i, leds_per_strip)] = RngTriple(i)
       /\ \A p \in Slots \ {Phys(RngStart + i, leds_per_strip) :
                              i \in 0 .. (total_leds - RngStart - 1)} :
            leds'[p] = leds[p]]_vars

\* a range of three from logical pixel 2 of 4 has been decoded: pixels 2 and 3
\* carry the first two triples, the third triple went nowhere
C11_Witness ==
  /\ Decoded /\ cmd = CMD_SET_RANGE /\ RngClamped
  /\ active_strips = 2 /\ leds_per_strip = 2
  /\ RngStart = 2 /\ RngCount = 3
  /\ RngTriple(0) = Tint /\ RngTriple(1) = Black /\ RngTriple(2) = Tint
  /\ leds[3] = Tint /\ leds[4] = Black /\ leds[0] = Black /\ leds[1] = Black

\* the frame the RP2040 main loop is decoding: opcode, 16-bit pixel / start
\* field, count field and length of the consumed transaction
RpCmd == dec_snap.buf[0]
RpStart == Be16(dec_snap.buf[1], dec_snap.buf[2])
RpCount == dec_snap.buf[3]
RpLen == dec_snap.n

\* C12 (both decoders): a set-range whose 16-bit start field is >= total_leds
\* changes no pixel, whatever its count and length.
C12_RangeStartOutOfSpace ==
  [][/\ (Decoding /\ cmd = CMD_SET_RANGE /\ rx_bytes >= 3 /\ RngStart >= total_leds)
          => leds' = leds
     /\ (RpDecoding /\ RpCmd = CMD_SET_RANGE /\ RpStart >= TOTAL_LEDS)
          => rp_leds' = rp_leds]_vars

\* payload triple i of a set-all frame, in either decoder
AllTriple(i) ==
  <<At(spi_rx_buffer, 1 + (3 * i)), At(spi_rx_buffer, 2 + (3 * i)),
    At(spi_rx_buffer, 3 + (3 * i))>>
RpAllTriple(i) ==
  <<dec_snap.buf[1 + (3 * i)], dec_snap.buf[2 + (3 * i)], dec_snap.buf[3 + (3 * i)]>>

\* the RP2040 main loop has finished processCommand() on the consumed frame
RpDecoded == pcm = "done"

\* C13 (both decoders): a set-all of length >= 1 + 3*total_leds leaves every
\* logical pixel i equal to payload triple i, hands the buffer to the driver
\* exactly once within the command and adds one to the rendered-frame counter.
C13_SetAllThenRender ==
  [][/\ (Decoding /\ cmd = CMD_SET_ALL /\ rx_bytes >= 1 + (3 * total_leds)) =>
          /\ \A i \in 0 .. (total_leds - 1) :
               leds'[Phys(i, leds_per_strip)] = AllTriple(i)
          /\ shown' = <<leds'>>
          /\ frames_rendered' = frames_rendered + 1
     /\ (RpDecoded /\ RpCmd = CMD_SET_ALL_PIXELS /\ RpLen >= 1 + (3 * TOTAL_LEDS)) =>
          /\ \A i \in RpPixels : rp_leds[i] = RpAllTriple(i)
          /\ rp_shown = <<rp_leds>>
          /\ framesRendered = dec_snap.frames + 1]_vars

\* frames the decoders drop: too short for their opcode, or of unknown opcode
EspDropped ==
  \/ cmd = CMD_SET_PIXEL /\ rx_bytes < 6
  \/ cmd = CMD_SET_BRIGHTNESS /\ rx_bytes < 2
  \/ cmd = CMD_SET_RANGE /\ (rx_bytes < 4 \/ rx_bytes < 4 + (3 * RngCount))
  \/ cmd = CMD_SET_ALL /\ rx_bytes < 1 + (3 * total_leds)
  \/ cmd \notin {CMD_PING, CMD_SET_PIXEL, CMD_SET_BRIGHTNESS, CMD_SHOW, CMD_CLEAR,
                 CMD_SET_RANGE, CMD_SET_ALL, CMD_CONFIG}
RpDropped ==
  \/ RpCmd = CMD_SET_PIXEL /\ RpLen < 6
  \/ RpCmd = CMD_SET_BRIGHTNESS /\ RpLen < 2
  \/ RpCmd = CMD_SET_RANGE /\ (RpLen < 4 \/ RpLen < 4 + (3 * RpCount))
  \/ RpCmd = CMD_SET_ALL_PIXELS /\ RpLen < 1 + (3 * TOTAL_LEDS)
  \/ RpCmd \notin {CMD_PING, CMD_SET_PIXEL, CMD_SET_BRIGHTNESS, CMD_SHOW, CMD_CLEAR,
                   CMD_SET_RANGE, CMD_SET_ALL_PIXELS}

\* C14 (both decoders): a dropped frame changes neither the pixel buffer, the
\* configuration, the brightness nor the rendered-frame counter, hands nothing
\* to the driver, and the loop goes on to the next frame.
C14_DroppedFrameNoMutation ==
  [][/\ (Decoding /\ EspDropped) =>
          /\ UNCHANGED <<leds, cfg_vars, global_brightness, frames_rendered, shown>>
          /\ shown = <<>>
          /\ pc' = "top"
     /\ (RpDecoding /\ RpDropped) =>
          /\ UNCHANGED <<rp_leds, rp_brightness, framesRendered, rp_shown>>
          /\ rp_shown = <<>>
          /\ ~transaction_complete
          /\ RpDecoded => pcm' = "loop"]_vars

\* a set-all one byte short has been dropped by an ESP32 that holds a lit
\* pixel and has rendered before
C14_Witness ==
  /\ Decoded /\ cmd = CMD_SET_ALL /\ rx_bytes = 3 * total_leds
  /\ total_leds = MAX_TOTAL_LEDS
  /\ \E p \in Slots : leds[p] = Tint
  /\ frames_rendered > 0
  /\ shown = <<>>

\* C15 (ESP32): every command adds to the rendered-frame counter exactly the
\* number of times it hands the pixel buffer to the driver: one per hand-off,
\* nothing for a command that hands over nothing.
C15_CounterCountsHandOffs ==
  [][(pc = "process") =>
       (frames_rendered' - frames_rendered = Len(shown') - Len(shown))]_vars

\* the opcodes that write without rendering
EspWriters == {CMD_SET_PIXEL, CMD_SET_RANGE, CMD_SET_BRIGHTNESS}

\* ESP32: a decode step of a write command applies the write at once, hands
\* nothing to the driver and leaves the counter; only the opcodes in `pushers`
\* hand the buffer to the driver
EspWritesNotBatched(pushers) ==
  Decoding =>
    /\ cmd \in EspWriters => UNCHANGED <<shown, frames_rendered>>
    /\ (cmd = CMD_SET_PIXEL /\ rx_bytes >= 6 /\ RngStart < total_leds) =>
         leds'[Phys(RngStart, leds_per_strip)] =
           <<At(spi_rx_buffer, 3), At(spi_rx_buffer, 4), At(spi_rx_buffer, 5)>>
    /\ (cmd = CMD_SET_BRIGHTNESS /\ rx_bytes >= 2) =>
         global_brightness' = At(spi_rx_buffer, 1)
    /\ (cmd = CMD_SET_RANGE /\ rx_bytes >= 4 /\ RngStart < total_leds
          /\ RngCount > 0 /\ rx_bytes >= 4 + (3 * RngCount)) =>
         leds'[Phys(RngStart, leds_per_strip)] = RngTriple(0)
    /\ (shown' # shown \/ frames_rendered' # frames_rendered) => cmd \in pushers

\* RP2040: the same, over the steps of one decode and its result
RpWritesNotBatched(pushers) ==
  /\ (RpDecoding /\ RpCmd \in EspWriters) => UNCHANGED <<rp_shown, framesRendered>>
  /\ (RpDecoding /\ (rp_shown' # rp_shown \/ framesRendered' # framesRendered))
       => RpCmd \in pushers
  /\ (RpDecoded /\ RpCmd = CMD_SET_PIXEL /\ RpLen >= 6 /\ RpStart < TOTAL_LEDS) =>
       rp_leds[RpStart] = <<dec_snap.buf[3], dec_snap.buf[4], dec_snap.buf[5]>>
  /\ (RpDecoded /\ RpCmd = CMD_SET_BRIGHTNESS /\ RpLen >= 2) =>
       rp_brightness = dec_snap.buf[1]
  /\ (RpDecoded /\ RpCmd = CMD_SET_RANGE /\ RpLen >= 4 /\ RpStart < TOTAL_LEDS
        /\ RpCount > 0 /\ RpLen >= 4 + (3 * RpCount)) =>
       rp_leds[RpStart] = <<dec_snap.buf[4], dec_snap.buf[5], dec_snap.buf[6]>>

C17_ZeroLengthNoOp ==
  [][/\ (pc = "transmit" /\ rx_bytes' = 0) =>
          UNCHANGED <<leds, cfg_vars, global_brightness, frames_rendered, shown>>
     /\ (pc = "process" /\ rx_bytes = 0) =>
          /\ UNCHANGED <<leds, cfg_vars, global_brightness, frames_rendered, shown>>
          /\ shown = <<>>
          /\ pc' = "top"
     /\ (txns > 0 /\ tx = <<>>) =>
          /\ UNCHANGED <<rp_leds, rp_brightness, framesRendered, rp_shown,
                         packetsReceived, transaction_complete, pcm>>
          /\ ~transaction_complete
          /\ pcm = "loop"]_vars

\* after a set-pixel was applied, a transaction of zero bytes has come and gone
\* on the RP2040
C17_Witness ==
  /\ txns = 2 /\ tx = <<>> /\ cs = "high"
  /\ bytes_received = 0 /\ ~transaction_complete /\ pcm = "loop"
  /\ rp_leds[1] = <<1, 2, 3>>
  /\ packetsReceived = 1

\* the fields of a set-pixel frame of at least 6 bytes
PxIndex == Be16(At(spi_rx_buffer, 1), At(spi_rx_buffer, 2))
PxColour == <<At(spi_rx_buffer, 3), At(spi_rx_buffer, 4), At(spi_rx_buffer, 5)>>

\* C18 (ESP32): a set-pixel of length >= 6 with index < total_leds sets exactly
\* slot (index / leds_per_strip) * MAX_LEDS_PER_STRIP + (index % leds_per_strip)
\* to (r, g, b); with index >= total_leds it writes nothing. Configuration,
\* brightness and frame counter stay as they are, and nothing is shown. The
\* arithmetic of the worked example (length 3, stride 5, index 4) gives slot 6.
C18_SetPixelExactSlot ==
  [][(Decoding /\ cmd = CMD_SET_PIXEL /\ rx_bytes >= 6) =>
       /\ PxIndex < total_leds =>
            leds' = [leds EXCEPT
                       ![((PxIndex \div leds_per_strip) * MAX_LEDS_PER_STRIP)
                           + (PxIndex % leds_per_strip)] = PxColour]
       /\ PxIndex >= total_leds => leds' = leds
       /\ UNCHANGED <<cfg_vars, global_brightness, frames_rendered, shown>>
       /\ ((4 \div 3) * 5) + (4 % 3) = 6]_vars

\* logical pixel 3 of two strips of two was set: only slot 4 = 1*3 + 1 is lit
C18_Witness ==
  /\ Decoded /\ cmd = CMD_SET_PIXEL /\ rx_bytes >= 6
  /\ active_strips = 2 /\ leds_per_strip = 2
  /\ PxIndex = 3 /\ PxColour = Tint
  /\ leds[4] = Tint
  /\ \A p \in Slots \ {4} : leds[p] = Black

\* C19 (both decoders): a clear of any length >= 1 leaves every slot of every
\* addressable strip region at the idle colour, hands the buffer to the driver
\* exactly once within the command, and changes neither configuration nor
\* brightness.
C19_ClearThenRender ==
  [][/\ (Decoding /\ cmd = CMD_CLEAR) =>
          /\ \A p \in Slots :
               Addressable(p, active_strips, leds_per_strip) => leds'[p] = Black
          /\ shown = <<>> /\ shown' = <<leds'>>
          /\ UNCHANGED <<cfg_vars, global_brightness>>
     /\ (RpDecoding /\ RpCmd = CMD_CLEAR) => rp_brightness' = rp_brightness
     /\ (RpDecoded /\ RpCmd = CMD_CLEAR) =>
          /\ \A i \in RpPixels : rp_leds[i] = Black
          /\ rp_shown = <<rp_leds>>
          /\ rp_brightness = dec_snap.brightness]_vars

\* the RP2040 has cleared a store that held a lit pixel, two-byte clear frame
C19_Witness ==
  /\ RpDecoded /\ RpCmd = CMD_CLEAR /\ RpLen = 2
  /\ dec_snap.leds[0] = <<1, 2, 3>>
  /\ \A i \in RpPixels : rp_leds[i] = Black
  /\ rp_shown = <<rp_leds>>
  /\ framesRendered = 1

\* the indices of data[] that process_command(data, length) reads, length >= 1:
\* the opcode, the zero-payload scan (lines 118-122) and each case's fields
EspReads(data, length) ==
  {0} \cup (1 .. (length - 1))
    \cup (CASE At(data, 0) = CMD_SET_PIXEL -> IF length < 6 THEN {} ELSE 1 .. 5
            [] At(data, 0) = CMD_SET_BRIGHTNESS -> IF length < 2 THEN {} ELSE {1}
            [] At(data, 0) = CMD_SET_RANGE ->
                 IF length < 4 THEN {}
                 ELSE {1, 2} \cup
                      (IF Be16(At(data, 1), At(data, 2)) >= total_leds THEN {}
                       ELSE {3} \cup
                            (IF ~RangeAccepted(data, length) THEN {}
                             ELSE 4 .. (3 + (3 * RangeCount(Be16(At(data, 1), At(data, 2)),
                                                            At(data, 3))))))
            [] At(data, 0) = CMD_SET_ALL ->
                 IF SetAllAccepted(length) THEN 1 .. (3 * total_leds) ELSE {}
            [] At(data, 0) = CMD_CONFIG ->
                 IF length < 4 THEN {}
                 ELSE {1, 2, 3} \cup
                      (IF ConfigAccepted(data, length) /\ length >= 5 THEN {4} ELSE {})
            [] OTHER -> {})

\* C20 (both decoders): decoding a frame of n bytes reads no receive-buffer
\* byte at an index >= n.
C20_NoReadPastLength ==
  /\ Decoding => \A i \in EspReads(spi_rx_buffer, rx_bytes) : i < rx_bytes
  /\ RpDecoding => \A i \in rd : i < RpLen

\* the buffer a completed transaction leaves: the bytes the master clocked, in
\* order from index 0, over the cleared buffer (lines 64, 88-101)
TxImage == [i \in DmaIdx |-> IF i < Len(tx) THEN tx[i + 1] ELSE 0]

\* C21 (RP2040): whenever the ready flag is set and no capture is in progress,
\* the published byte count is > 0 and is the number of bytes of the most
\* recently completed transaction, and the receive buffer holds exactly those
\* bytes; the flag is only ever set by the end-of-transaction handler, which
\* has written the count by then, and only the main loop clears it.
C21_PublishBeforeReady ==
  [][/\ (transaction_complete' /\ cs' = "high") =>
          /\ bytes_received' > 0
          /\ bytes_received' = Len(tx')
          /\ dma_buffer' = TxImage'
     /\ (~transaction_complete /\ transaction_complete') =>
          (cs = "low" /\ cs' = "high" /\ bytes_received' = RiseCount)
     /\ (transaction_complete /\ ~transaction_complete') => pcm = "clear"]_vars

\* calls of processCommand() so far: the ones counted at line 377 and the one
\* in progress or just returned
RpInvocations ==
  packetsReceived + (IF pcm \in {"loop", "clear", "check"} THEN 0 ELSE 1)

\* no completed transaction occurs twice in a log of opcode reads
NoRepeat(log) ==
  \A i, j \in 1 .. Len(log) : (i # j /\ log[i] > 0) => log[i] # log[j]

\* C22 (RP2040): under every interleaving of the chip-select interrupts with
\* the main loop, the calls of processCommand and the processed-packet counter
\* never exceed the number of completed non-empty transactions, the
\* transactions whose ready flag the main loop consumed are pairwise different,
\* and no two calls take their command from the same transaction: no frame is
\* decoded or applied twice.
C22_DecodedAtMostOnce ==
  /\ RpInvocations <= ready_snap.seq
  /\ packetsReceived <= ready_snap.seq
  /\ Increasing(decoded)
  /\ NoRepeat(applied)

\* transaction k has completed with at least one byte, its ready flag is set
\* and no transaction has started since
RpPending(k) ==
  transaction_complete /\ cs = "high" /\ ready_snap.id = k /\ txns = k

\* the calls of processCommand() that took their opcode from transaction k
\* after it had completed
RpApplications(k) == {i \in 1 .. Len(applied) : applied[i] = k}

\* the main loop is back at its poll with the flag clear, the last flag it
\* consumed was transaction k's, the decode read what k published, and k's
\* command was taken by exactly one call
RpDrained(k) ==
  /\ pcm = "loop" /\ ~transaction_complete /\ txns = k
  /\ Len(decoded) > 0 /\ decoded[Len(decoded)] = k
  /\ ~torn
  /\ Cardinality(RpApplications(k)) = 1

\* C23 (RP2040): if a non-empty transaction completes and no new transaction
\* starts before the main loop has drained it, then, the main loop being
\* weakly fair, the main loop eventually has decoded exactly that frame, once,
\* and left the ready flag cleared.
C23_PendingFrameDrained ==
  \A k \in 1 .. MaxTxns : RpPending(k) ~> (txns > k \/ RpDrained(k))

\* C24 (ESP32): an accepted reconfigure leaves the colour of every physical
\* slot inside the new addressable region (strip < new strip count and offset
\* < new per-strip length) as it was, and leaves brightness as it was: the
\* only slots it modifies lie outside the new region.
C24_ReconfigureKeepsRegion ==
  [][(Decoding /\ cmd = CMD_CONFIG /\ CfgValid) =>
       /\ \A p \in Slots : Addressable(p, CfgStrips, CfgLen) => leds'[p] = leds[p]
       /\ \A p \in Slots : leds'[p] # leds[p] => ~Addressable(p, CfgStrips, CfgLen)
       /\ global_brightness' = global_brightness]_vars

\* a reconfigure to one strip of one pixel has been decoded: the painted first
\* slot and the brightness set earlier are still there, the rest is idle
C24_Witness ==
  /\ Decoded /\ cmd = CMD_CONFIG /\ CfgValid
  /\ CfgStrips = 1 /\ CfgLen = 1
  /\ leds[0] = Tint
  /\ \A p \in Slots \ {0} : leds[p] = Black
  /\ global_brightness # DEFAULT_BRIGHTNESS

\* the frame about to be decoded has more than one byte and every byte after
\* the opcode is zero
PayloadAllZero ==
  rx_bytes > 1 /\ \A i \in 2 .. rx_bytes : spi_rx_buffer[i] = 0

\* what the opcode's case does with a frame whose fields are all zero: pixel 0
\* black, brightness 0, start 0 and count 0, strip count 0
ZeroFieldsEffect ==
  CASE cmd = CMD_SET_PIXEL /\ rx_bytes >= 6 ->
         /\ leds' = [leds EXCEPT ![0] = Black]
         /\ shown' = shown
         /\ UNCHANGED <<cfg_vars, global_brightness, frames_rendered>>
    [] cmd = CMD_SET_BRIGHTNESS ->
         /\ global_brightness' = 0
         /\ shown' = shown
         /\ UNCHANGED <<leds, cfg_vars, frames_rendered>>
    [] cmd = CMD_SHOW ->
         /\ shown' = <<leds>>
         /\ frames_rendered' = frames_rendered + 1
         /\ UNCHANGED <<leds, cfg_vars, global_brightness>>
    [] cmd = CMD_CLEAR ->
         /\ leds' = [p \in Slots |-> Black]
         /\ shown' = <<leds'>>
         /\ frames_rendered' = frames_rendered + 1
         /\ UNCHANGED <<cfg_vars, global_brightness>>
    [] cmd = CMD_SET_ALL /\ rx_bytes >= 1 + (3 * total_leds) ->
         /\ \A p \in Slots : leds'[p] = Black
         /\ shown' = <<leds'>>
         /\ frames_rendered' = frames_rendered + 1
         /\ UNCHANGED <<cfg_vars, global_brightness>>
    [] OTHER ->
         /\ shown' = shown
         /\ UNCHANGED <<leds, cfg_vars, global_brightness, frames_rendered>>

\* C25 (ESP32): the zero-payload check is diagnostic only. A frame of more
\* than one byte whose bytes after the opcode are all zero raises the
\* zero-payload counter by exactly one and is then dispatched like any other
\* frame: buffer, configuration, brightness and rendering change exactly as the
\* opcode's case prescribes for all-zero fields. A frame of one byte, or with a
\* non-zero payload byte, leaves the counter as it was.
C25_ZeroPayloadDiagnosticOnly ==
  [][Decoding =>
       IF PayloadAllZero
       THEN zero_payload_packets' = zero_payload_packets + 1 /\ ZeroFieldsEffect
       ELSE zero_payload_packets' = zero_payload_packets]_vars

\* a render frame with a zero byte after the opcode has been decoded: it was
\* counted and the painted buffer was rendered
C25_Witness ==
  /\ Decoded /\ spi_rx_buffer = <<CMD_SHOW, 0>>
  /\ zero_payload_packets = 1
  /\ leds[0] = Tint
  /\ shown = <<leds>> /\ frames_rendered = 1

====
